---- MODULE Spec2Model ----
(***************************************************************************)
(* A model of the value-set analysis core declared in rangeutil.hh:        *)
(* CircleRange (accessors, iteration, equality, overlap encoding), and the *)
(* Partition chains that ValueSetSolver threads through its ValueSets and  *)
(* walks in solve().                                                       *)
(***************************************************************************)
EXTENDS Integers, Sequences, FiniteSets, TLC

VARIABLES
  range,          \* the CircleRange being iterated
  val,            \* the caller's iteration variable (uintb val)
  pc,             \* position in  val = getMin(); do { } while(getNext(val));
  visited,        \* the values the loop body has seen, in order
  obs,            \* what the accessors returned for range
  op1, op2,       \* the two operands of CircleRange::operator==
  eqr,            \* what operator== returned for them
  bnd,            \* the four boundaries given to encodeRangeOverlaps
  ovl,            \* the index it built and the code it returned
  valueNodes,     \* ValueSetSolver::valueNodes, the ValueSets of the system
  next,           \* ValueSet::next of every ValueSet (0 is the null pointer)
  partHead,       \* ValueSet::partHead, an index into recordStorage (0 is null)
  recordStorage,  \* ValueSetSolver::recordStorage
  partStack,      \* orderPartition, then the compPart of each open component
  used,           \* the ValueSets already placed in the ordering
  built,          \* history: what was prepended to each partition of partStack
  recBuilt,       \* history: the chain of each recorded partition when recorded
  phase,          \* "build", "solve" or "done"
  curSet,         \* solve(): the ValueSet to iterate next
  componentStack, \* solve(): the components entered and not yet left
  numIterations,  \* ValueSetSolver::numIterations
  maxIterations,  \* ValueSetSolver::maxIterations
  trail           \* history: the ValueSets iterated by solve(), in order

rangeVars == <<range, val, pc, visited, obs>>
eqVars == <<op1, op2, eqr>>
ovVars == <<bnd, ovl>>

solverVars == <<valueNodes, next, partHead, recordStorage, partStack, used, built, recBuilt,
                phase, curSet, componentStack, numIterations, maxIterations, trail>>

vars == <<rangeVars, eqVars, ovVars, solverVars>>

(***************************************************************************)
(* Bounds of the model.                                                    *)
(***************************************************************************)
\* uintb is modelled MaxBits wide; a mask is 2^n-1 for some n in 0..MaxBits.
MaxBits == 3

\* The operands of operator== are drawn from the ranges of at most EqBits bits.
EqBits == 2

\* The boundaries given to encodeRangeOverlaps are drawn from 0..MaxBoundary.
MaxBoundary == 12

\* An ordering is built over MaxNodes ValueSets.
MaxNodes == 4

\* solve() is run on the systems of at most MaxSolveNodes ValueSets.
MaxSolveNodes == 3

\* The ceiling given to solve() is drawn from 0..MaxCeiling.
MaxCeiling == 6

(***************************************************************************)
(* Machine arithmetic.                                                     *)
(***************************************************************************)
RECURSIVE Pow2(_)
Pow2(n) == IF n = 0 THEN 1 ELSE 2 * Pow2(n - 1)

\* Largest uintb value plus one.
WordModulus == Pow2(MaxBits)

\* Unsigned wrap-around of uintb arithmetic.
Wrap(x) == x % WordModulus

\* Bitwise & of two unsigned values.
RECURSIVE BitAnd(_, _)
BitAnd(a, b) ==
  IF a = 0 \/ b = 0 THEN 0
  ELSE 2 * BitAnd(a \div 2, b \div 2) + (IF a % 2 = 1 /\ b % 2 = 1 THEN 1 ELSE 0)

\* Bitwise | of two unsigned values.
RECURSIVE BitOr(_, _)
BitOr(a, b) ==
  IF a = 0 THEN b
  ELSE IF b = 0 THEN a
  ELSE 2 * BitOr(a \div 2, b \div 2) + (IF a % 2 = 1 \/ b % 2 = 1 THEN 1 ELSE 0)

(***************************************************************************)
(* CircleRange: the fields and the inline members.                         *)
(***************************************************************************)
\* Strides allowed over a given mask: 1, 2, 4, ..., mask+1.
Steps(mask) == { s \in 1..(mask + 1) : \E k \in 0..MaxBits : s = Pow2(k) }

\* The non-empty ranges over the masks of at most bits bits that satisfy the
\* data model.
ValidRangesUpTo(bits) ==
  UNION { { r \in { [left |-> l, right |-> rt, mask |-> m, isempty |-> FALSE,
                     step |-> s] : l \in 0..m, rt \in 0..m, s \in Steps(m) } :
              ((r.right - r.left) % (m + 1)) % r.step = 0 }
          : m \in { Pow2(n) - 1 : n \in 0..bits } }

\* The empty ranges: CircleRange(void) sets isempty only, an operation that
\* empties a range leaves the other fields as they were.  The other fields
\* hold any value whatever.
EmptyRangesUpTo(bits) ==
  UNION { { [left |-> l, right |-> rt, mask |-> m, isempty |-> TRUE, step |-> s] :
              l \in 0..m, rt \in 0..m, s \in Steps(m) \cup {0} }
          : m \in { Pow2(n) - 1 : n \in 0..bits } }

ValidRanges == ValidRangesUpTo(MaxBits)

EmptyRanges == EmptyRangesUpTo(MaxBits)

isEmpty(r) == r.isempty

isFull(r) == (~r.isempty) /\ (r.step = 1) /\ (r.left = r.right)

\* isSingle with the "& mask" left out.
isSingleNoMask(r) == (~r.isempty) /\ (r.right = r.left + r.step)

isSingle(r) == (~r.isempty) /\ (r.right = BitAnd(Wrap(r.left + r.step), r.mask))

getMin(r) == r.left

\* getMax with the subtraction left unreduced.
getMaxNoMask(r) == r.right - r.step

getMax(r) == BitAnd(Wrap(r.right - r.step), r.mask)

getEnd(r) == r.right

getMask(r) == r.mask

getStep(r) == r.step

\* getNext with the "& mask" left out.
getNextNoMask(r, v) ==
  LET nv == Wrap(v + r.step)
  IN  [val |-> nv, ret |-> (nv # r.right)]

\* getNext comparing against the wrong boundary value.
getNextOffByOne(r, v) ==
  LET nv == BitAnd(Wrap(v + r.step), r.mask)
  IN  [val |-> nv, ret |-> (nv # r.right /\ nv # BitAnd(Wrap(r.right + r.step), r.mask))]

\* bool getNext(uintb &val): the new val and the value returned.
getNext(r, v) ==
  LET nv == BitAnd(Wrap(v + r.step), r.mask)
  IN  [val |-> nv, ret |-> (nv # r.right)]

\* The set a range denotes: v = left + k*step inside [left,right) taken
\* circularly; left = right on a non-empty range is the whole circle.
Members(r) ==
  IF r.isempty THEN {}
  ELSE LET m   == r.mask + 1
           d   == (r.right - r.left) % m
           len == IF d = 0 THEN m ELSE d
       IN  { v \in 0..r.mask :
               /\ (v - r.left) % m < len
               /\ ((v - r.left) % m) % r.step = 0 }

\* uintb getSize(void) const: the number of values in the range.
getSize(r) == Cardinality(Members(r))

(***************************************************************************)
(* Iterating a range the way the class documentation shows:                *)
(*     val = range.getMin();   do { body } while(range.getNext(val));      *)
(***************************************************************************)
NoObs == [taken |-> FALSE, empty |-> FALSE, full |-> FALSE, single |-> FALSE,
          min |-> 0, max |-> 0, end |-> 0, size |-> 0]

NoRange == [left |-> 0, right |-> 0, mask |-> 0, isempty |-> TRUE, step |-> 0]

NoEq == [done |-> FALSE, aa |-> FALSE, ab |-> FALSE, ba |-> FALSE]

NoOvl == [done |-> FALSE, idx |-> 0, code |-> ""]

\* The parts of the state a specification does not use stay as they are here.
IdleRange ==
  /\ range = NoRange
  /\ val = 0
  /\ pc = "idle"
  /\ visited = << >>
  /\ obs = NoObs

IdleEq == op1 = NoRange /\ op2 = NoRange /\ eqr = NoEq

IdleOv == bnd = <<0, 0, 0, 0>> /\ ovl = NoOvl

IdleSolver ==
  /\ valueNodes = {}
  /\ next = << >>
  /\ partHead = << >>
  /\ recordStorage = << >>
  /\ partStack = << >>
  /\ used = {}
  /\ built = << >>
  /\ recBuilt = << >>
  /\ phase = "idle"
  /\ curSet = 0
  /\ componentStack = << >>
  /\ numIterations = 0
  /\ maxIterations = 0
  /\ trail = << >>

InitRange ==
  /\ range \in ValidRanges \cup EmptyRanges
  /\ val = 0
  /\ pc = "start"
  /\ visited = << >>
  /\ obs = NoObs
  /\ IdleEq
  /\ IdleOv
  /\ IdleSolver

\* A caller reads the accessors of the range.
Observe ==
  /\ ~obs.taken
  /\ obs' = [taken |-> TRUE, empty |-> isEmpty(range), full |-> isFull(range),
             single |-> isSingle(range), min |-> getMin(range),
             max |-> getMax(range), end |-> getEnd(range),
             size |-> getSize(range)]
  /\ UNCHANGED <<range, val, pc, visited>>
  /\ UNCHANGED <<eqVars, ovVars, solverVars>>

\* val = range.getMin();
Begin ==
  /\ pc = "start"
  /\ val' = getMin(range)
  /\ pc' = "body"
  /\ UNCHANGED <<range, visited, obs>>
  /\ UNCHANGED <<eqVars, ovVars, solverVars>>

\* do { ... one pass through the loop body.  The guard caps the walk over an
\* empty range, whose fields need not make the loop end.
Body ==
  /\ pc = "body"
  /\ Len(visited) <= range.mask + 1
  /\ visited' = Append(visited, val)
  /\ pc' = "next"
  /\ UNCHANGED <<range, val, obs>>
  /\ UNCHANGED <<eqVars, ovVars, solverVars>>

\* ... } while(range.getNext(val));
Advance ==
  /\ pc = "next"
  /\ LET g == getNext(range, val)
     IN  /\ val' = g.val
         /\ pc' = IF g.ret THEN "body" ELSE "done"
  /\ UNCHANGED <<range, visited, obs>>
  /\ UNCHANGED <<eqVars, ovVars, solverVars>>

NextRange == Observe \/ Begin \/ Body \/ Advance

SpecRange == InitRange /\ [][NextRange]_vars /\ WF_vars(NextRange)

(***************************************************************************)
(* Properties of the iteration and of the accessors.                       *)
(***************************************************************************)
Distinct(seq) == \A i, j \in 1..Len(seq) : i # j => seq[i] # seq[j]

SeqRange(seq) == { seq[i] : i \in 1..Len(seq) }

\* C1: for a non-empty range satisfying the data model, the walk
\* val = getMin(); do { } while(getNext(val)) ends, the values it visits are
\* pairwise distinct, and when it ends it has visited exactly getSize()
\* values, the members of the range.
C1_IterationVisitsGetSize ==
  /\ [](~range.isempty =>
          /\ Distinct(visited)
          /\ Len(visited) <= getSize(range)
          /\ (pc = "done" =>
                /\ Len(visited) = getSize(range)
                /\ SeqRange(visited) = Members(range)))
  /\ [](~range.isempty => <>(pc = "done"))

C1_Witness ==
  /\ pc = "done"
  /\ ~range.isempty
  /\ range.step = 2
  /\ range.right < range.left
  /\ Len(visited) = getSize(range)
  /\ Len(visited) >= 3

\* C2 as stated: under the iteration protocol an empty range iterates zero
\* times and a full range iterates (mask+1)/step times.
C2_EmptyIteratesZeroTimes ==
  /\ (range.isempty => Len(visited) = 0)
  /\ (isFull(range) /\ pc = "done" =>
        Len(visited) = (range.mask + 1) \div range.step)

\* C2 amended: the loop body runs before getNext is first asked, and getNext
\* never looks at isempty, so an empty range is iterated at least once; a
\* full range iterates exactly (mask+1)/step times.
C2_EmptyIteratesAtLeastOnce ==
  /\ (range.isempty /\ pc \in {"next", "done"} => Len(visited) >= 1)
  /\ (isFull(range) /\ pc # "done" => Len(visited) <= range.mask + 1)
  /\ (isFull(range) /\ pc = "done" =>
        Len(visited) = (range.mask + 1) \div range.step)

C2_Witness ==
  /\ pc = "done"
  /\ isFull(range)
  /\ range.mask = WordModulus - 1
  /\ Len(visited) = range.mask + 1

\* C3: on a non-empty range satisfying the data model, wrapped or not,
\* getMin() is the first value visited, getMax() the last one visited before
\* getNext returns false, getMax() is a member, it is right - step modulo
\* mask+1, and (getMax() + step) mod (mask+1) = right.
C3_MinFirstMaxLast ==
  (~range.isempty /\ obs.taken) =>
    /\ (Len(visited) >= 1 => visited[1] = obs.min)
    /\ (pc = "done" => visited[Len(visited)] = obs.max)
    /\ obs.max \in Members(range)
    /\ obs.min \in Members(range)
    /\ obs.max = (range.right - range.step) % (range.mask + 1)
    /\ (obs.max + range.step) % (range.mask + 1) = range.right

C3_Witness ==
  /\ pc = "done"
  /\ obs.taken
  /\ ~range.isempty
  /\ range.left = 5
  /\ range.right = 0
  /\ range.step = 1
  /\ obs.max = range.mask
  /\ visited[Len(visited)] = obs.max

\* C4: over a modulus of at least two values, isFull() is true exactly when
\* the range is non-empty and holds all mask+1 values, isSingle() exactly
\* when it is non-empty and holds one value, both are false on an empty
\* range, and no range is both.
C4_FullAndSingle ==
  (obs.taken /\ range.mask >= 1) =>
    /\ (obs.full <=> (~obs.empty /\ Members(range) = 0..range.mask))
    /\ (obs.single <=> (~obs.empty /\ Cardinality(Members(range)) = 1))
    /\ (obs.empty => ~obs.full /\ ~obs.single)
    /\ ~(obs.full /\ obs.single)

C4_Witness ==
  /\ obs.taken
  /\ obs.single
  /\ ~obs.full
  /\ range.mask >= 3
  /\ range.left = range.mask
  /\ range.right = 0

(***************************************************************************)
(* CircleRange::operator==                                                 *)
(***************************************************************************)
\* operator== comparing the fields and the flag with no shortcut for empty
\* ranges.
EqualsNoEmptyShortcut(a, b) ==
  (a.isempty = b.isempty) /\ (a.left = b.left) /\ (a.right = b.right)
    /\ (a.mask = b.mask) /\ (a.step = b.step)

Equals(a, b) ==
  IF a.isempty # b.isempty THEN FALSE
  ELSE IF a.isempty THEN TRUE
  ELSE (a.left = b.left) /\ (a.right = b.right) /\ (a.mask = b.mask)
         /\ (a.step = b.step)

EqRanges == ValidRangesUpTo(EqBits) \cup EmptyRangesUpTo(EqBits)

InitEq ==
  /\ op1 \in EqRanges
  /\ op2 \in EqRanges
  /\ eqr = NoEq
  /\ IdleRange
  /\ IdleOv
  /\ IdleSolver

\* op1 == op2, op2 == op1 and op1 == op1 are evaluated.
Compare ==
  /\ ~eqr.done
  /\ eqr' = [done |-> TRUE, aa |-> Equals(op1, op1), ab |-> Equals(op1, op2),
             ba |-> Equals(op2, op1)]
  /\ UNCHANGED <<op1, op2>>
  /\ UNCHANGED <<rangeVars, ovVars, solverVars>>

NextEq == Compare

SpecEq == InitEq /\ [][NextEq]_vars

SameFields(a, b) ==
  (a.left = b.left) /\ (a.right = b.right) /\ (a.mask = b.mask) /\ (a.step = b.step)

\* C10: operator== is reflexive, symmetric and transitive; two empty ranges
\* are equal whatever their other fields hold, an empty range never equals a
\* non-empty one, two non-empty ranges are equal exactly when left, right,
\* mask and step match, and equal ranges denote the same set of values.
C10_EqualityIsEquivalence ==
  eqr.done =>
    /\ eqr.aa
    /\ (eqr.ab <=> eqr.ba)
    /\ \A c \in EqRanges : (eqr.ab /\ Equals(op2, c)) => Equals(op1, c)
    /\ (op1.isempty /\ op2.isempty => eqr.ab)
    /\ (op1.isempty # op2.isempty => ~eqr.ab)
    /\ (~op1.isempty /\ ~op2.isempty => (eqr.ab <=> SameFields(op1, op2)))
    /\ (eqr.ab => Members(op1) = Members(op2))

C10_Witness ==
  /\ eqr.done
  /\ eqr.ab
  /\ op1.isempty
  /\ op2.isempty
  /\ op1.left # op2.left
  /\ op1.step # op2.step

(***************************************************************************)
(* CircleRange::encodeRangeOverlaps                                        *)
(***************************************************************************)
\* const char CircleRange::arrange[]: the overlap category of each of the 64
\* relation vectors, categories a to g as the comment of encodeRangeOverlaps
\* lists them.
arrange ==
  << "g","c","g","b","e","g","d","a", "g","g","g","g","g","g","g","e",
     "g","g","g","g","c","g","b","g", "g","g","g","g","g","g","g","c",
     "d","f","g","g","g","g","g","g", "g","e","g","d","g","g","g","g",
     "b","g","g","g","f","g","g","g", "g","c","g","b","e","g","d","a" >>

\* The index with the weights of (r <= l') and (r <= r') exchanged.
overlapIndexSwapped(op1left, op1right, op2left, op2right) ==
  LET v0 == IF op1left <= op1right THEN 32 ELSE 0
      v1 == BitOr(v0, IF op1left <= op2left THEN 16 ELSE 0)
      v2 == BitOr(v1, IF op1left <= op2right THEN 8 ELSE 0)
      v3 == BitOr(v2, IF op1right <= op2left THEN 2 ELSE 0)
      v4 == BitOr(v3, IF op1right <= op2right THEN 4 ELSE 0)
  IN  BitOr(v4, IF op2left <= op2right THEN 1 ELSE 0)

\* int4 val of encodeRangeOverlaps after the six "val |= ..." statements.
overlapIndex(op1left, op1right, op2left, op2right) ==
  LET v0 == IF op1left <= op1right THEN 32 ELSE 0
      v1 == BitOr(v0, IF op1left <= op2left THEN 16 ELSE 0)
      v2 == BitOr(v1, IF op1left <= op2right THEN 8 ELSE 0)
      v3 == BitOr(v2, IF op1right <= op2left THEN 4 ELSE 0)
      v4 == BitOr(v3, IF op1right <= op2right THEN 2 ELSE 0)
  IN  BitOr(v4, IF op2left <= op2right THEN 1 ELSE 0)

\* return arrange[val];  (arrange is indexed from 0)
encodeRangeOverlaps(op1left, op1right, op2left, op2right) ==
  arrange[overlapIndex(op1left, op1right, op2left, op2right) + 1]

InitOv ==
  /\ bnd \in (0..MaxBoundary) \X (0..MaxBoundary) \X (0..MaxBoundary) \X (0..MaxBoundary)
  /\ ovl = NoOvl
  /\ IdleRange
  /\ IdleEq
  /\ IdleSolver

Encode ==
  /\ ~ovl.done
  /\ ovl' = [done |-> TRUE,
             idx  |-> overlapIndex(bnd[1], bnd[2], bnd[3], bnd[4]),
             code |-> encodeRangeOverlaps(bnd[1], bnd[2], bnd[3], bnd[4])]
  /\ UNCHANGED bnd
  /\ UNCHANGED <<rangeVars, eqVars, solverVars>>

NextOv == Encode

SpecOv == InitOv /\ [][NextOv]_vars

\* Bit k (0 = least significant) of a six-bit index.
IndexBit(idx, k) == (idx \div Pow2(k)) % 2 = 1

\* C5: encodeRangeOverlaps builds an index in 0..63 whose bits, from most to
\* least significant, are (l<=r, l<=l', l<=r', r<=l', r<=r', l'<=r'), returns
\* the table entry at that index, and returns 'b' whenever l <= l' < r <= r'.
C5_OverlapIndexAndCategoryB ==
  ovl.done =>
    LET l == bnd[1]  r == bnd[2]  l2 == bnd[3]  r2 == bnd[4]
    IN  /\ ovl.idx \in 0..63
        /\ (IndexBit(ovl.idx, 5) <=> l <= r)
        /\ (IndexBit(ovl.idx, 4) <=> l <= l2)
        /\ (IndexBit(ovl.idx, 3) <=> l <= r2)
        /\ (IndexBit(ovl.idx, 2) <=> r <= l2)
        /\ (IndexBit(ovl.idx, 1) <=> r <= r2)
        /\ (IndexBit(ovl.idx, 0) <=> l2 <= r2)
        /\ ovl.code = arrange[ovl.idx + 1]
        /\ ((l <= l2 /\ l2 < r /\ r <= r2) => ovl.code = "b")

C5_Witness ==
  /\ ovl.done
  /\ bnd = <<2, 8, 5, 12>>
  /\ ovl.code = "b"

(***************************************************************************)
(* Partition and the chains ValueSetSolver threads through ValueSet::next. *)
(***************************************************************************)
Nodes == 1..MaxNodes

Null == 0

\* Partition::Partition(void)
EmptyPartition == [startNode |-> Null, stopNode |-> Null, isDirty |-> FALSE]

\* partitionPrepend(ValueSet *,Partition &) that forgets to attach the old
\* chain behind the new vertex.
partitionPrependDetached(vertex, part, nxt) ==
  [next |-> [nxt EXCEPT ![vertex] = Null],
   part |-> [part EXCEPT !.startNode = vertex,
                         !.stopNode = IF part.stopNode = Null THEN vertex
                                      ELSE part.stopNode]]

\* partitionPrepend(ValueSet *,Partition &) that sets stopNode on every call.
partitionPrependMovesStop(vertex, part, nxt) ==
  [next |-> [nxt EXCEPT ![vertex] = part.startNode],
   part |-> [part EXCEPT !.startNode = vertex, !.stopNode = vertex]]

\* partitionPrepend(ValueSet *vertex,Partition &part): the next links and
\* the partition after the call.
partitionPrepend(vertex, part, nxt) ==
  [next |-> [nxt EXCEPT ![vertex] = part.startNode],
   part |-> [part EXCEPT !.startNode = vertex,
                         !.stopNode = IF part.stopNode = Null THEN vertex
                                      ELSE part.stopNode]]

\* partitionPrepend(const Partition &,Partition &) that links the old chain
\* behind head's first node instead of its last.
partitionPrependPartAtStart(head, part, nxt) ==
  [next |-> [nxt EXCEPT ![head.startNode] = part.startNode],
   part |-> [part EXCEPT !.startNode = head.startNode,
                         !.stopNode = IF part.stopNode = Null THEN head.stopNode
                                      ELSE part.stopNode]]

\* partitionPrepend(const Partition &head,Partition &part): the next links
\* and the partition after the call.
partitionPrependPart(head, part, nxt) ==
  [next |-> [nxt EXCEPT ![head.stopNode] = part.startNode],
   part |-> [part EXCEPT !.startNode = head.startNode,
                         !.stopNode = IF part.stopNode = Null THEN head.stopNode
                                      ELSE part.stopNode]]

\* partitionSurround(Partition &part): a copy of part is stored in
\* recordStorage and attached to part's first node as its partHead.
partitionSurround(part, records, heads) ==
  [recordStorage |-> Append(records, part),
   partHead |-> [heads EXCEPT ![part.startNode] = Len(records) + 1]]

\* The nodes met following next from n, to the null pointer; -1 marks a walk
\* that did not end within fuel steps.
RECURSIVE ChainFrom(_, _, _)
ChainFrom(n, nxt, fuel) ==
  IF n = Null THEN << >>
  ELSE IF fuel = 0 THEN << -1 >>
  ELSE << n >> \o ChainFrom(nxt[n], nxt, fuel - 1)

Chain(part) == ChainFrom(part.startNode, next, MaxNodes + 1)

Reverse(seq) == [i \in 1..Len(seq) |-> seq[Len(seq) + 1 - i]]

IsSegment(seg, ch) ==
  \E o \in 0..(Len(ch) - Len(seg)) : SubSeq(ch, o + 1, o + Len(seg)) = seg

NoHistory == [verts |-> << >>, pure |-> TRUE, chain |-> << >>]

\* The state once the ValueSets exist and before any of them is ordered.
Unordered ==
  /\ next = [v \in Nodes |-> Null]
  /\ partHead = [v \in Nodes |-> 0]
  /\ recordStorage = << >>
  /\ partStack = << EmptyPartition >>
  /\ used = {}
  /\ built = << NoHistory >>
  /\ recBuilt = << >>
  /\ phase = "build"
  /\ curSet = Null
  /\ componentStack = << >>
  /\ numIterations = 0
  /\ maxIterations = 0
  /\ trail = << >>
  /\ IdleRange
  /\ IdleEq
  /\ IdleOv

InitBuild == valueNodes = Nodes /\ Unordered

InitSolver == (\E n \in 1..MaxSolveNodes : valueNodes = 1..n) /\ Unordered

\* Every open component still needs a node of its own to head it.
RoomFor(depth) == Cardinality(valueNodes \ used) >= depth

\* visit(): a vertex that heads no loop is prepended to the partition being
\* built.
PrependVertex(v) ==
  /\ phase = "build"
  /\ v \in valueNodes \ used
  /\ RoomFor(Len(partStack))
  /\ LET top == Len(partStack)
         r   == partitionPrepend(v, partStack[top], next)
     IN  /\ next' = r.next
         /\ partStack' = [partStack EXCEPT ![top] = r.part]
         /\ built' = [built EXCEPT ![top] =
                        [verts |-> Append(@.verts, v), pure |-> @.pure,
                         chain |-> << v >> \o @.chain]]
  /\ used' = used \cup {v}
  /\ UNCHANGED <<valueNodes, partHead, recordStorage, recBuilt, phase, curSet,
                 componentStack, numIterations, maxIterations, trail>>
  /\ UNCHANGED <<rangeVars, eqVars, ovVars>>

\* visit(): the vertex heads a loop; an empty compPart is created and
\* component() starts filling it.
EnterComponent ==
  /\ phase = "build"
  /\ RoomFor(Len(partStack) + 1)
  /\ partStack' = Append(partStack, EmptyPartition)
  /\ built' = Append(built, NoHistory)
  /\ UNCHANGED <<valueNodes, next, partHead, recordStorage, used, recBuilt, phase,
                 curSet,
                 componentStack, numIterations, maxIterations, trail>>
  /\ UNCHANGED <<rangeVars, eqVars, ovVars>>

\* component() ends: the head vertex is prepended to compPart and compPart is
\* recorded by partitionSurround; back in visit(), compPart is prepended to
\* the enclosing partition.
ExitComponent(v) ==
  /\ phase = "build"
  /\ Len(partStack) >= 2
  /\ v \in valueNodes \ used
  /\ LET top  == Len(partStack)
         r1   == partitionPrepend(v, partStack[top], next)
         comp == r1.part
         sur  == partitionSurround(comp, recordStorage, partHead)
         r2   == partitionPrependPart(comp, partStack[top - 1], r1.next)
         seg  == << v >> \o built[top].chain
     IN  /\ recordStorage' = sur.recordStorage
         /\ partHead' = sur.partHead
         /\ next' = r2.next
         /\ partStack' = Append(SubSeq(partStack, 1, top - 2), r2.part)
         /\ built' = Append(SubSeq(built, 1, top - 2),
                            [verts |-> built[top - 1].verts, pure |-> FALSE,
                             chain |-> seg \o built[top - 1].chain])
         /\ recBuilt' = Append(recBuilt, seg)
  /\ used' = used \cup {v}
  /\ UNCHANGED <<valueNodes, phase, curSet, componentStack, numIterations,
                 maxIterations, trail>>
  /\ UNCHANGED <<rangeVars, eqVars, ovVars>>

(***************************************************************************)
(* ValueSetSolver::solve(int4 max)                                         *)
(***************************************************************************)
\* The main loop going one iteration past the ceiling.
solveContinuesPastMax(cs, num, max) == cs # Null /\ num <= max

\* The main loop goes on while there is a node to iterate and the ceiling
\* has not been reached.
solveContinues(cs, num, max) == cs # Null /\ num < max

\* The tail cs of the innermost component has been iterated: a dirty
\* component is cleared and restarted from its head, a clean one is left, and
\* so on outwards while cs is the tail of the enclosing component too.
RECURSIVE leaveTail(_, _, _)
leaveTail(stack, recs, cs) ==
  LET cur == stack[Len(stack)]
  IN  IF recs[cur].isDirty
      THEN [stack |-> stack,
            recs |-> [recs EXCEPT ![cur].isDirty = FALSE],
            curSet |-> recs[cur].startNode]
      ELSE LET rest == SubSeq(stack, 1, Len(stack) - 1)
           IN  IF rest = << >>
               THEN [stack |-> rest, recs |-> recs, curSet |-> next[cs]]
               ELSE IF recs[rest[Len(rest)]].stopNode # cs
               THEN [stack |-> rest, recs |-> recs, curSet |-> next[cs]]
               ELSE leaveTail(rest, recs, cs)

\* solve() is called once the ordering is complete.
StartSolve(max) ==
  /\ phase = "build"
  /\ Len(partStack) = 1
  /\ used = valueNodes
  /\ maxIterations' = max
  /\ numIterations' = 0
  /\ curSet' = partStack[1].startNode
  /\ componentStack' = << >>
  /\ trail' = << >>
  /\ phase' = "solve"
  /\ UNCHANGED <<valueNodes, next, partHead, recordStorage, partStack, used, built,
                 recBuilt>>
  /\ UNCHANGED <<rangeVars, eqVars, ovVars>>

\* One pass of the main loop: curSet is iterated, and "changed" is what its
\* iterate() returns.
SolveStep(changed) ==
  /\ phase = "solve"
  /\ solveContinues(curSet, numIterations, maxIterations)
  /\ numIterations' = numIterations + 1
  /\ trail' = Append(trail, curSet)
  /\ LET cur0    == IF componentStack = << >> THEN 0
                    ELSE componentStack[Len(componentStack)]
         enters  == partHead[curSet] # 0 /\ partHead[curSet] # cur0
         stack1  == IF enters THEN Append(componentStack, partHead[curSet])
                    ELSE componentStack
         recs1   == IF enters
                    THEN [recordStorage EXCEPT ![partHead[curSet]].isDirty = FALSE]
                    ELSE recordStorage
         onStack == { stack1[i] : i \in 1..Len(stack1) }
         recs2   == IF changed
                    THEN [k \in 1..Len(recs1) |->
                            IF k \in onStack THEN [recs1[k] EXCEPT !.isDirty = TRUE]
                            ELSE recs1[k]]
                    ELSE recs1
     IN  IF stack1 = << >>
         THEN /\ curSet' = next[curSet]
              /\ componentStack' = stack1
              /\ recordStorage' = recs2
         ELSE IF recs2[stack1[Len(stack1)]].stopNode # curSet
         THEN /\ curSet' = next[curSet]
              /\ componentStack' = stack1
              /\ recordStorage' = recs2
         ELSE LET out == leaveTail(stack1, recs2, curSet)
              IN  /\ curSet' = out.curSet
                  /\ componentStack' = out.stack
                  /\ recordStorage' = out.recs
  /\ UNCHANGED <<valueNodes, next, partHead, partStack, used, built, recBuilt,
                 phase, maxIterations>>
  /\ UNCHANGED <<rangeVars, eqVars, ovVars>>

\* The main loop has ended and solve() returns.
SolveReturn ==
  /\ phase = "solve"
  /\ ~solveContinues(curSet, numIterations, maxIterations)
  /\ phase' = "done"
  /\ UNCHANGED <<valueNodes, next, partHead, recordStorage, partStack, used, built,
                 recBuilt, curSet, componentStack, numIterations, maxIterations, trail>>
  /\ UNCHANGED <<rangeVars, eqVars, ovVars>>

\* establishTopologicalOrder(): the ordering is built.
NextBuild ==
  \/ \E v \in Nodes : PrependVertex(v)
  \/ EnterComponent
  \/ \E v \in Nodes : ExitComponent(v)

SpecBuild == InitBuild /\ [][NextBuild]_vars

NextSolver ==
  \/ \E v \in Nodes : PrependVertex(v)
  \/ EnterComponent
  \/ \E v \in Nodes : ExitComponent(v)
  \/ \E max \in 0..MaxCeiling : StartSolve(max)
  \/ \E changed \in BOOLEAN : SolveStep(changed)
  \/ SolveReturn

SpecSolver == InitSolver /\ [][NextSolver]_vars /\ WF_vars(NextSolver)

getNumIterations == numIterations

\* How often solve() has iterated ValueSet v.
IterCount(v) == Cardinality({ i \in 1..Len(trail) : trail[i] = v })

(***************************************************************************)
(* Properties of the partition chains and of solve().                      *)
(***************************************************************************)
\* C6: solve(max) ends, on any system and for any ceiling: the count of
\* iterations never passes max, solve returns either with the count at max
\* or after a sweep that left no Partition dirty, and getNumIterations() is
\* then at most max.
C6_SolveTerminates ==
  /\ [](phase \in {"solve", "done"} => getNumIterations <= maxIterations)
  /\ [](phase = "done" =>
          \/ numIterations = maxIterations
          \/ /\ curSet = Null
             /\ componentStack = << >>
             /\ \A k \in 1..Len(recordStorage) : ~recordStorage[k].isDirty)
  /\ [](phase = "solve" => <>(phase = "done"))

C6_Witness ==
  /\ phase = "done"
  /\ Len(recordStorage) >= 1
  /\ curSet # Null
  /\ getNumIterations = maxIterations
  /\ maxIterations > Cardinality(valueNodes)

\* C7: with no Partition recorded (acyclic data-flow) and max at least the
\* number of ValueSets, solve walks orderPartition once: no ValueSet is
\* iterated twice, and on return each has been iterated exactly once, in
\* the order of the chain, and getNumIterations() is the number of ValueSets.
C7_AcyclicOneSweep ==
  (/\ phase \in {"solve", "done"}
   /\ recordStorage = << >>
   /\ maxIterations >= Cardinality(valueNodes)) =>
    /\ \A v \in Nodes : IterCount(v) <= 1
    /\ (phase = "done" =>
          /\ \A v \in valueNodes : IterCount(v) = 1
          /\ trail = Chain(partStack[1])
          /\ getNumIterations = Cardinality(valueNodes))

C7_Witness ==
  /\ phase = "done"
  /\ recordStorage = << >>
  /\ Cardinality(valueNodes) = 3
  /\ maxIterations > 3
  /\ getNumIterations = 3
  /\ trail = << 2, 3, 1 >>

\* C8: a Partition that started empty and has had only vertices prepended,
\* all distinct, is a null-terminated chain without a cycle: following next
\* from startNode visits the vertices in the reverse of the order they were
\* prepended and ends at stopNode; startNode is the vertex prepended last,
\* stopNode the one prepended first, and stopNode, once set, stays.
C8_VertexPrependChain ==
  /\ [](\A i \in 1..Len(partStack) :
          built[i].pure =>
            LET p  == partStack[i]
                vs == built[i].verts
            IN  /\ Chain(p) = Reverse(vs)
                /\ (vs = << >> => p.startNode = Null /\ p.stopNode = Null)
                /\ (vs # << >> =>
                      /\ p.startNode = vs[Len(vs)]
                      /\ p.stopNode = vs[1]
                      /\ next[p.stopNode] = Null))
  /\ [][\A i \in 1..Len(partStack) :
          (i <= Len(partStack') /\ partStack[i].stopNode # Null) =>
            partStack'[i].stopNode = partStack[i].stopNode]_vars

C8_Witness ==
  /\ Len(partStack) = 1
  /\ built[1].pure
  /\ built[1].verts = << 2, 4, 1 >>
  /\ Chain(partStack[1]) = << 1, 4, 2 >>
  /\ partStack[1].stopNode = 2

\* C9: prepending a non-empty Partition head to part leaves head's
\* startNode, stopNode and isDirty as they were and makes part's chain head's
\* chain followed by part's old chain; whatever is prepended later, the
\* nodes from head.startNode to head.stopNode stay a contiguous segment of
\* the chain they are in, in their order.
C9_PartitionPrependSegment ==
  /\ \A i \in 1..Len(partStack) : Chain(partStack[i]) = built[i].chain
  /\ \A k \in 1..Len(recordStorage) :
       LET head == recordStorage[k]
           seg  == recBuilt[k]
       IN  /\ head.startNode = seg[1]
           /\ head.stopNode = seg[Len(seg)]
           /\ (phase = "build" => ~head.isDirty)
           /\ partHead[head.startNode] = k
           /\ \E i \in 1..Len(partStack) : IsSegment(seg, Chain(partStack[i]))

C9_Witness ==
  /\ Len(partStack) = 1
  /\ Len(recordStorage) = 1
  /\ recBuilt[1] = << 3, 1 >>
  /\ Chain(partStack[1]) = << 2, 3, 1, 4 >>

====
